---- MODULE Spec2Model ----
(***************************************************************************)
(* Model of the bios_settings_set target runner                            *)
(* (src/plugins/teststeps/hsi/main.go, lines 69-263) and of the event      *)
(* emitter adapter (src/plugins/teststeps/hwaas/events.go).                *)
(*                                                                         *)
(* One behaviour is one call of TargetRunner.Run for one target.  The      *)
(* collaborators (parameter expander, transport, process handle, emitter)  *)
(* are the environment: each call returns nil or an error, chosen with \E. *)
(* Byte strings (stdout, stderr) are sequences of lexical tokens; errors   *)
(* are sequences of text parts, the nil error being the empty sequence.    *)
(*                                                                         *)
(* Spec is the run seen call by call: every collaborator call returns, the *)
(* context is not canceled and the pipes hold whatever the process wrote.  *)
(* StreamSpec follows the same run through time: the step's timeout, the   *)
(* remote process writing through bounded pipes, Wait and the reads        *)
(* blocking.  HttpSpec is one call of the HTTP API client                  *)
(* (src/unnamed/part_000).                                                 *)
(***************************************************************************)
EXTENDS Naturals, Sequences, FiniteSets

VARIABLES
    pc,        \* position inside Run / runSet
    target,    \* the target Run was called for
    params,    \* inputStepParams after ExpandObject
    calls,     \* log of the collaborator calls made so far: [op, err]
    argv,      \* argument vector handed to NewProcess
    proc,      \* process handle state: none, created, started, exited
    pipeOut,   \* bytes the remote process wrote to stdout
    pipeErr,   \* bytes the remote process wrote to stderr
    stdout,    \* runSet's local stdout (captured buffer)
    stderr,    \* runSet's local stderr (captured buffer)
    outcome,   \* runSet's local outcome (Start's or Wait's result)
    ret,       \* the pair runSet returned: [outcome, err]
    events,    \* events the emitter accepted, in order
    result,    \* Run's return value
    handed,    \* every testevent.Data handed to ev.Emit, accepted or not
    timeout,   \* r.ts.Options.Timeout
    ctx,       \* the run's context: live or canceled
    script,    \* writes the remote process has still to make, in order
    hpc,       \* position inside a call of the HTTP client
    haddr,     \* HTTP.Addr
    hverb,     \* the verb of the client call
    hstatus,   \* status code of the server's answer
    hbody,     \* body of the server's answer
    posts,     \* URLs http.PostForm was called with
    hret       \* what the client call returned: [resp, err]

\* the step's timeout, its context and the remote process's pending writes
envVars == <<timeout, ctx, script>>

\* state of the HTTP API client
httpVars == <<hpc, haddr, hverb, hstatus, hbody, posts, hret>>

\* state of one TargetRunner.Run
runVars == <<pc, target, params, calls, argv, proc, pipeOut, pipeErr,
             stdout, stderr, outcome, ret, events, result, handed>>

vars == <<runVars, envVars, httpVars>>

----------------------------------------------------------------------------
(* Bounds *)

\* longest stderr text enumerated exhaustively over the token alphabet
MaxLen == 2
\* longest stdout text
MaxOut == 1
\* tokens a pipe holds before the writer blocks (StreamSpec)
PipeCap == 1
\* most writes the remote process makes (StreamSpec)
MaxWrite == 2

----------------------------------------------------------------------------
(* Errors: nil is <<>>, an error is the sequence of its text parts *)

Nil == <<>>

\* fmt.Errorf(prefix + "%v", cause)
Errorf(prefix, cause) == <<prefix>> \o cause

\* errors returned by the collaborators
ExpandErr    == <<"expand: no such field">>
TransportErr == <<"bad transport options">>
ProcessErr   == <<"no session">>
PipeErr      == <<"pipe unavailable">>
StartErr     == <<"connection refused">>
ExitErr      == <<"process exited with status 1">>
ReadErr      == <<"read: connection reset">>
EmitErr      == <<"storage unavailable">>
CtxErr       == <<"context deadline exceeded">>

----------------------------------------------------------------------------
(* Constants of the step *)

supportedProto == "ssh"
privileged     == "sudo"
cmd            == "wmi"
jsonFlag       == "--json"
EventStdout    == "Stdout"
EventStderr    == "Stderr"
Events         == <<EventStdout, EventStderr>>
Benign         == "BIOS options are locked, needs unlocking."

Targets == {"dut1", "dut2"}

\* zero value of inputStepParams
ZeroParams ==
    [Proto |-> "", Password |-> "", KeyPath |-> "", Option |-> "",
     Value |-> "", ToolPath |-> "", ShallFail |-> FALSE]

\* values ExpandObject can fill in
Params ==
    [Proto : {"ssh", "http"}, Password : {"", "secret"},
     KeyPath : {"", "/id_rsa"}, Option : {"", "SecureBoot"},
     Value : {"", "Enabled"}, ToolPath : {"/bin/tool"},
     ShallFail : BOOLEAN]

----------------------------------------------------------------------------
(* Byte strings as token sequences *)

LBrace == "{"
RBrace == "}"
Comma  == ","
KeyError      == "\"error\":"
KeyErrorUpper == "\"ERROR\":"
KeyOther      == "\"code\":"
TNull         == "null"
TNum          == "1"
StrEmpty      == "\"\""
StrBenign     == "\"BIOS options are locked, needs unlocking.\""
StrNear       == "\"BIOS options are locked, needs unlocking\""
StrOther      == "\"boom\""
Plain         == "done"
\* a byte that is not valid UTF-8
Bad           == "\\xff"
\* U+FFFD, the Unicode replacement rune
Replacement   == "\\ufffd"

Keys    == {KeyError, KeyErrorUpper, KeyOther}
Strings == {StrEmpty, StrBenign, StrNear, StrOther}
Atoms   == Strings \cup {TNull, TNum}
Tokens  == {LBrace, RBrace, Comma, Bad} \cup Keys \cup Atoms
\* the tokens short texts are enumerated over
CoreTokens == {LBrace, RBrace, Comma, Bad, KeyError, TNull, TNum, StrOther}

\* the Go string a JSON string literal decodes to
StrVal(tok) ==
    CASE tok = StrEmpty  -> ""
      [] tok = StrBenign -> Benign
      [] tok = StrNear   -> "BIOS options are locked, needs unlocking"
      [] tok = StrOther  -> "boom"

\* encoding/json matches object keys to field names case-insensitively
Fold(key) ==
    CASE key = KeyError      -> "error"
      [] key = KeyErrorUpper -> "error"
      [] key = KeyOther      -> "code"

SeqsUpTo(S, n) == UNION {[1..k -> S] : k \in 0..n}

----------------------------------------------------------------------------
(* json.Unmarshal(stderr, &err) with err of type Error{Msg `json:"error"`} *)

RECURSIVE ValueEnd(_, _), MembersEnd(_, _)

\* index just after the JSON value that starts at s[i]; 0 when there is none
ValueEnd(s, i) ==
    IF i > Len(s) THEN 0
    ELSE IF s[i] \in Atoms THEN i + 1
    ELSE IF s[i] = LBrace
         THEN IF i + 1 <= Len(s) /\ s[i + 1] = RBrace
              THEN i + 2
              ELSE MembersEnd(s, i + 1)
    ELSE 0

\* s[i] is the key of an object member; index just after the closing brace
MembersEnd(s, i) ==
    IF i > Len(s) \/ s[i] \notin Keys THEN 0
    ELSE LET v == ValueEnd(s, i + 1)
         IN  IF v = 0 \/ v > Len(s) THEN 0
             ELSE IF s[v] = RBrace THEN v + 1
             ELSE IF s[v] = Comma THEN MembersEnd(s, v + 1)
             ELSE 0

\* the syntax scan Unmarshal runs over the whole input before decoding
checkValid(s) == ValueEnd(s, 1) = Len(s) + 1

RECURSIVE objectInto(_, _, _)

\* decode the members of a valid top-level object into v = [Msg, typeErr]:
\* a string sets Msg, null leaves it, any other value is a type error that is
\* saved while decoding goes on; unknown keys are skipped; the last duplicate wins
objectInto(s, i, v) ==
    IF s[i] = RBrace THEN v
    ELSE LET e   == ValueEnd(s, i + 1)
             val == s[i + 1]
             v2  == IF Fold(s[i]) # "error" THEN v
                    ELSE IF val \in Strings THEN [v EXCEPT !.Msg = StrVal(val)]
                    ELSE IF val = TNull THEN v
                    ELSE [v EXCEPT !.typeErr = TRUE]
         IN  IF s[e] = RBrace THEN v2 ELSE objectInto(s, e + 1, v2)

SyntaxError        == <<"invalid character">>
UnmarshalTypeError == <<"json: cannot unmarshal into Go value of type Error">>

\* the error Unmarshal returns and the Msg field it leaves behind
Unmarshal(s) ==
    IF ~checkValid(s) THEN [err |-> SyntaxError, Msg |-> ""]
    ELSE IF s[1] = TNull THEN [err |-> Nil, Msg |-> ""]
    ELSE IF s[1] \in Atoms THEN [err |-> UnmarshalTypeError, Msg |-> ""]
    ELSE LET v == objectInto(s, 2, [Msg |-> "", typeErr |-> FALSE])
         IN  [err |-> IF v.typeErr THEN UnmarshalTypeError ELSE Nil,
              Msg |-> v.Msg]

----------------------------------------------------------------------------
(* parseSetOutput *)

\* variant: the decode error is dropped and the zero Msg is classified
parseSetOutputDropDecodeErr(bytes, fail) ==
    LET u == IF Len(bytes) # 0 THEN Unmarshal(bytes)
             ELSE [err |-> Nil, Msg |-> ""]
    IN  IF u.err = Nil /\ u.Msg # "" /\ ~(u.Msg = Benign /\ fail)
        THEN <<u.Msg>>
        ELSE Nil

\* variant: the benign message is suppressed without consulting the flag
parseSetOutputAlwaysTolerate(bytes, fail) ==
    LET u == IF Len(bytes) # 0 THEN Unmarshal(bytes)
             ELSE [err |-> Nil, Msg |-> ""]
    IN  IF u.err # Nil
        THEN Errorf("failed to unmarshal stderr: ", u.err)
        ELSE IF u.Msg # "" /\ u.Msg # Benign THEN <<u.Msg>>
        ELSE Nil

\* variant: the flag is consulted but the benign message is never suppressed
parseSetOutputNeverTolerate(bytes, fail) ==
    LET u == IF Len(bytes) # 0 THEN Unmarshal(bytes)
             ELSE [err |-> Nil, Msg |-> ""]
    IN  IF u.err # Nil
        THEN Errorf("failed to unmarshal stderr: ", u.err)
        ELSE IF u.Msg # "" THEN <<u.Msg>>
        ELSE Nil

parseSetOutput(bytes, fail) ==
    LET u == IF Len(bytes) # 0 THEN Unmarshal(bytes)
             ELSE [err |-> Nil, Msg |-> ""]
    IN  IF u.err # Nil
        THEN Errorf("failed to unmarshal stderr: ", u.err)
        ELSE IF u.Msg # ""
             THEN IF u.Msg = Benign /\ fail THEN Nil
                  ELSE IF u.Msg # "" THEN <<u.Msg>>
                  ELSE Nil
             ELSE Nil

----------------------------------------------------------------------------
(* Inputs the remote process can produce *)

\* stderr: every token text up to MaxLen, and the object shapes of interest
StderrInputs ==
    SeqsUpTo(CoreTokens, MaxLen)
    \cup {<<LBrace, k, v, RBrace>> : k \in Keys, v \in Atoms}
    \cup {<<LBrace, KeyError, StrOther, Comma, KeyOther, TNum, RBrace>>,
          <<LBrace, KeyError, TNum, Comma, KeyError, StrOther, RBrace>>,
          <<LBrace, KeyError, StrBenign, Comma, KeyError, StrEmpty, RBrace>>,
          <<LBrace, KeyError, LBrace, RBrace, RBrace>>,
          <<LBrace, KeyOther, LBrace, KeyError, StrOther, RBrace, RBrace>>,
          <<LBrace, KeyError, StrOther, Comma, RBrace>>,
          <<LBrace, KeyError, StrEmpty, RBrace, Bad>>,
          <<LBrace, KeyError, StrOther>>}

StdoutInputs == SeqsUpTo({Plain, Bad}, MaxOut)

----------------------------------------------------------------------------
(* Helpers of Run and runSet *)

\* variant: option and value are rejected only when both are empty
ValidateBothEmpty(p) ==
    IF p.Proto # supportedProto
    THEN <<"only \"ssh\" is supported as protocol in this teststep">>
    ELSE IF p.Password = "" /\ p.KeyPath = ""
    THEN <<"password or certificate file must be set">>
    ELSE IF p.Option = "" /\ p.Value = ""
    THEN <<"bios option and value must be set">>
    ELSE Nil

\* variant: the credential check demands exactly one credential
ValidateExactlyOne(p) ==
    IF p.Proto # supportedProto
    THEN <<"only \"ssh\" is supported as protocol in this teststep">>
    ELSE IF (p.Password = "") = (p.KeyPath = "")
    THEN <<"password or certificate file must be set">>
    ELSE IF p.Option = "" \/ p.Value = ""
    THEN <<"bios option and value must be set">>
    ELSE Nil

\* Run's checks between ExpandObject and NewTransport, in order
Validate(p) ==
    IF p.Proto # supportedProto
    THEN <<"only \"ssh\" is supported as protocol in this teststep">>
    ELSE IF p.Password = "" /\ p.KeyPath = ""
    THEN <<"password or certificate file must be set">>
    ELSE IF p.Option = "" \/ p.Value = ""
    THEN <<"bios option and value must be set">>
    ELSE Nil

\* runSet's authString: the password wins when both credentials are set
authString(p) ==
    IF p.Password # "" THEN <<"--password=", p.Password>>
    ELSE IF p.KeyPath # "" THEN <<"--private-key=", p.KeyPath>>
    ELSE <<>>

\* the argument vector of NewProcess
Argv(p) ==
    <<p.ToolPath, cmd, "set", <<"--option=", p.Option>>,
      <<"--value=", p.Value>>, authString(p), jsonFlag>>

\* variant: the bytes copied before the error are returned
readBufferKeepsPartial(pipe, e) == pipe

\* readBuffer: the bytes of the stream, or nil when io.Copy reports an error
readBuffer(pipe, e) == IF e # Nil THEN <<>> ELSE pipe

\* json.Marshal coerces a string to valid UTF-8: every invalid byte becomes
\* U+FFFD.  The result is the Msg a reader of the JSON document gets back.
Marshal(payload) ==
    [Msg |-> [i \in 1..Len(payload.Msg) |->
                IF payload.Msg[i] = Bad THEN Replacement ELSE payload.Msg[i]]]

\* eventPayload{Msg: string(bytes)}
eventPayload(bytes) == [Msg |-> bytes]

\* variant: every event is named Stdout
EventDataOneName(name, payload, tgt) ==
    [EventName |-> EventStdout, Target |-> tgt, Payload |-> Marshal(payload)]

\* variant: the event is named after the command's start
EventDataCmdStart(name, payload, tgt) ==
    [EventName |-> "CmdStart", Target |-> tgt, Payload |-> Marshal(payload)]

\* the testevent.Data emitEvent hands to the emitter
EventData(name, payload, tgt) ==
    [EventName |-> name, Target |-> tgt, Payload |-> Marshal(payload)]

\* variant: the emitter's error is logged and dropped
emitEventSwallow(e) == Nil

\* emitEvent's return value when Emit returns e
emitEvent(e) ==
    IF e # Nil THEN Errorf("cannot emit event EventCmdStart: ", e) ELSE Nil

\* variant: the outcome is dropped
RunResultErrOnly(o, e) == e

\* Run's return value from runSet's pair
RunResult(o, e) == IF e # Nil THEN e ELSE o

Call(op, e) == [op |-> op, err |-> e]

Called(op) == \E i \in 1..Len(calls) : calls[i].op = op

Returned(op, e) == \E i \in 1..Len(calls) : calls[i] = Call(op, e)

Failed(op) == \E i \in 1..Len(calls) : calls[i].op = op /\ calls[i].err # Nil

NoRet == [outcome |-> Nil, err |-> Nil]

----------------------------------------------------------------------------
(* HTTP API transport: addresses, url.Parse and the scheme checks *)

\* longest base address, in tokens
MaxAddr == 4

Verbs == {"version", "start", "stop", "status", "retry", "list"}

\* the pieces a base address is made of
Colon == ":"
Slashes == "//"
Port == "8080"
Host == "example.com"
AddrTokens == {"http", "https", "HTTP", "ftp", Host, Port, Colon, Slashes}

\* tokens made of letters only
Letters == {"http", "https", "HTTP", "ftp"}

Addrs == SeqsUpTo(AddrTokens, MaxAddr)

ToLower(t) == IF t = "HTTP" THEN "http" ELSE t

NoScheme(raw) == [scheme |-> <<>>, rest |-> raw, err |-> Nil]

\* net/url getScheme: letters go on; a digit, '+', '-' or '.' may not come
\* first; a colon ends the scheme and may not come first; any other
\* character means there is no scheme
RECURSIVE getScheme(_, _)
getScheme(raw, i) ==
    IF i > Len(raw) THEN NoScheme(raw)
    ELSE IF raw[i] \in Letters \/ raw[i] = Host THEN getScheme(raw, i + 1)
    ELSE IF raw[i] = Port
         THEN IF i = 1 THEN NoScheme(raw) ELSE getScheme(raw, i + 1)
    ELSE IF raw[i] = Colon
         THEN IF i = 1
              THEN [scheme |-> <<>>, rest |-> <<>>,
                    err |-> <<"missing protocol scheme">>]
              ELSE [scheme |-> SubSeq(raw, 1, i - 1),
                    rest |-> SubSeq(raw, i + 1, Len(raw)), err |-> Nil]
    ELSE NoScheme(raw)

\* the part of s before its first slash
RECURSIVE Segment(_)
Segment(s) ==
    IF s = <<>> \/ Head(s) = Slashes THEN <<>>
    ELSE <<Head(s)>> \o Segment(Tail(s))

Contains(s, t) == \E i \in 1..Len(s) : s[i] = t

\* net/url validOptionalPort: after the host's last colon, digits only
ValidPort(host) ==
    \A i \in 1..Len(host) :
        host[i] = Colon =>
            \/ \E j \in (i + 1)..Len(host) : host[j] = Colon
            \/ \A j \in (i + 1)..Len(host) : host[j] = Port

\* url.Parse(h.Addr): the lower-cased scheme, or an error
urlParse(raw) ==
    LET g == getScheme(raw, 1)
        scheme == [i \in 1..Len(g.scheme) |-> ToLower(g.scheme[i])]
        rest == g.rest
        ok == [scheme |-> scheme, err |-> Nil]
    IN  IF g.err # Nil THEN [scheme |-> <<>>, err |-> g.err]
        ELSE IF rest = <<>> \/ Head(rest) # Slashes
        THEN IF scheme # <<>> THEN ok
             ELSE IF Contains(Segment(rest), Colon)
             THEN [scheme |-> <<>>,
                   err |-> <<"first path segment in URL cannot contain colon">>]
             ELSE ok
        ELSE IF scheme # <<>> \/ ~(Len(rest) > 1 /\ rest[2] = Slashes)
        THEN IF ValidPort(Segment(Tail(rest))) THEN ok
             ELSE [scheme |-> <<>>, err |-> <<"invalid port after host">>]
        ELSE ok

\* variant: only the empty scheme is rejected
checkAddrSchemePresent(addr) ==
    LET u == urlParse(addr)
    IN  IF u.err # Nil
        THEN Errorf("failed to parse server address", u.err)
        ELSE IF u.scheme = <<>>
        THEN <<"server URL scheme not specified">>
        ELSE Nil

\* request, up to the POST: the error it returns before posting, or nil
checkAddr(addr) ==
    LET u == urlParse(addr)
    IN  IF u.err # Nil
        THEN Errorf("failed to parse server address", u.err)
        ELSE IF u.scheme = <<>>
        THEN <<"server URL scheme not specified">>
        ELSE IF u.scheme # <<"http">> /\ u.scheme # <<"https">>
        THEN <<"unsupported URL scheme">>
        ELSE Nil

----------------------------------------------------------------------------
(* HTTP API transport: response bodies and their decoding *)

\* a member the JSON object does not have
Absent == "(absent)"
\* a member whose value is a number where a string is expected
NumberValue == "(number)"

Msgs == {"job not found", ""}

\* raw texts of the Data member: null, an object of the verb's type, a value
\* of another type
DataTexts == {"null", "object", "mistyped"}

Object(msg, serverID, data, error) ==
    [kind |-> "object", msg |-> msg, ServerID |-> serverID, Data |-> data,
     Error |-> error]

\* the body {"msg": m}
MsgBody(m) == Object(m, Absent, Absent, Absent)

Garbage == [kind |-> "garbage", msg |-> Absent, ServerID |-> Absent,
            Data |-> Absent, Error |-> Absent]
NullBody == [kind |-> "null", msg |-> Absent, ServerID |-> Absent,
             Data |-> Absent, Error |-> Absent]
NoBody == [kind |-> "none", msg |-> Absent, ServerID |-> Absent,
           Data |-> Absent, Error |-> Absent]

\* bodies a server, or a proxy before it, answers with
Bodies ==
    {Garbage, NullBody, MsgBody(Absent), MsgBody(NumberValue)}
    \cup {MsgBody(m) : m \in Msgs}
    \cup {Object(Absent, "srv", d, "null") : d \in DataTexts \cup {Absent}}
    \cup {Object(Absent, "srv", "object", "job not found"),
          Object("job not found", "srv", "object", Absent)}

Statuses == {200, 404, 500}

\* zero value of the verb's api.ResponseData type
ZeroData == "zero"

\* the nil *HTTPPartiallyDecodedResponse, and the nil *api.XResponse
NoResp == [nil |-> TRUE, ServerID |-> "", Data |-> Absent, Err |-> Nil]

\* json.Unmarshal(body, &apiErr): unknown members are skipped, a null body
\* leaves the zero value
UnmarshalAPIError(body) ==
    IF body.kind = "garbage" THEN [Msg |-> "", err |-> <<"invalid character">>]
    ELSE IF body.kind = "null" \/ body.msg = Absent
    THEN [Msg |-> "", err |-> Nil]
    ELSE IF body.msg = NumberValue
    THEN [Msg |-> "", err |-> <<"cannot unmarshal number">>]
    ELSE [Msg |-> body.msg, err |-> Nil]

\* json.Unmarshal(body, &apiResp): Data is kept as raw text
UnmarshalAPIResponse(body) ==
    IF body.kind = "garbage"
    THEN [resp |-> NoResp, err |-> <<"invalid character">>]
    ELSE IF body.kind = "null"
    THEN [resp |-> [NoResp EXCEPT !.nil = FALSE], err |-> Nil]
    ELSE [resp |-> [nil |-> FALSE,
                    ServerID |-> IF body.ServerID = Absent THEN ""
                                 ELSE body.ServerID,
                    Data |-> body.Data,
                    Err |-> IF body.Error \in {Absent, "null"} THEN Nil
                            ELSE <<body.Error>>],
          err |-> Nil]

\* variant: a non-200 answer is returned as the call's error
requestErrorAsError(status, body) ==
    IF status = 200
    THEN LET r == UnmarshalAPIResponse(body)
         IN  IF r.err # Nil
             THEN [resp |-> NoResp,
                   err |-> Errorf("response is not a valid HTTP API response object", r.err)]
             ELSE r
    ELSE LET e == UnmarshalAPIError(body)
         IN  [resp |-> NoResp, err |-> <<e.Msg>>]

\* request, from the answer on: (&apiResp, nil) or (nil, err)
request(status, body) ==
    IF status = 200
    THEN LET r == UnmarshalAPIResponse(body)
         IN  IF r.err # Nil
             THEN [resp |-> NoResp,
                   err |-> Errorf("response is not a valid HTTP API response object", r.err)]
             ELSE r
    ELSE LET e == UnmarshalAPIError(body)
         IN  IF e.err # Nil
             THEN [resp |-> NoResp,
                   err |-> Errorf("response is not a valid HTTP API Error object", e.err)]
             ELSE [resp |-> [nil |-> FALSE, ServerID |-> "", Data |-> Absent,
                             Err |-> <<e.Msg>>],
                   err |-> Nil]

\* the verb's method, from request's return on: (&api.XResponse, nil) or
\* (nil, err)
verbResult(r) ==
    IF r.err # Nil THEN [resp |-> NoResp, err |-> r.err]
    ELSE IF r.resp.Data = "mistyped"
    THEN [resp |-> NoResp,
          err |-> Errorf("cannot decode json response", <<"cannot unmarshal">>)]
    ELSE [resp |-> [nil |-> FALSE, ServerID |-> r.resp.ServerID,
                    Data |-> IF r.resp.Data = "object" THEN "populated"
                             ELSE ZeroData,
                    Err |-> r.resp.Err],
          err |-> Nil]

\* nothing returned yet
NoHttpRet == [resp |-> NoResp, err |-> Nil]

\* the HTTP client is not in use
HttpIdle ==
    /\ hpc = "idle"
    /\ haddr = <<>>
    /\ hverb = ""
    /\ hstatus = 0
    /\ hbody = NoBody
    /\ posts = <<>>
    /\ hret = NoHttpRet

----------------------------------------------------------------------------
(* Run, one target *)

Init ==
    /\ pc = "Run"
    /\ target \in Targets
    /\ params = ZeroParams
    /\ calls = <<>>
    /\ argv = <<>>
    /\ proc = "none"
    /\ pipeOut = <<>>
    /\ pipeErr = <<>>
    /\ stdout = <<>>
    /\ stderr = <<>>
    /\ outcome = Nil
    /\ ret = NoRet
    /\ events = <<>>
    /\ result = Nil
    /\ handed = <<>>
    /\ timeout = 0
    /\ ctx = "live"
    /\ script = <<>>
    /\ HttpIdle

\* Run returns e before runSet is called
Abort(e) ==
    /\ result' = e
    /\ pc' = "done"

\* variant: an error is returned next to the outcome reached so far
ReturnPairKeepOutcome(o, e) ==
    /\ ret' = [outcome |-> IF e # Nil THEN outcome ELSE o, err |-> e]
    /\ pc' = "return"

\* runSet returns the pair (o, e)
ReturnPair(o, e) ==
    /\ ret' = [outcome |-> o, err |-> e]
    /\ pc' = "return"

\* pe.ExpandObject(r.ts.inputStepParams, &params)
ExpandObject ==
    /\ pc = "Run"
    /\ \E e \in {Nil, ExpandErr} :
         /\ calls' = Append(calls, Call("ExpandObject", e))
         /\ IF e # Nil
            THEN /\ Abort(e)
                 /\ UNCHANGED params
            ELSE /\ \E p \in Params : params' = p
                 /\ pc' = "validate"
                 /\ UNCHANGED result
    /\ UNCHANGED <<handed, envVars, httpVars>>
    /\ UNCHANGED <<target, argv, proc, pipeOut, pipeErr, stdout, stderr,
                   outcome, ret, events>>

\* the protocol, credential and option/value checks
CheckParams ==
    /\ pc = "validate"
    /\ IF Validate(params) # Nil
       THEN Abort(Validate(params))
       ELSE /\ pc' = "newTransport"
            /\ UNCHANGED result
    /\ UNCHANGED <<handed, envVars, httpVars>>
    /\ UNCHANGED <<target, params, calls, argv, proc, pipeOut, pipeErr,
                   stdout, stderr, outcome, ret, events>>

\* transport.NewTransport(proto, options, pe)
NewTransport ==
    /\ pc = "newTransport"
    /\ \E e \in {Nil, TransportErr} :
         /\ calls' = Append(calls, Call("NewTransport", e))
         /\ IF e # Nil
            THEN Abort(Errorf("failed to create transport: ", e))
            ELSE /\ pc' = "runSet"
                 /\ UNCHANGED result
    /\ UNCHANGED <<handed, envVars, httpVars>>
    /\ UNCHANGED <<target, params, argv, proc, pipeOut, pipeErr, stdout,
                   stderr, outcome, ret, events>>

\* runSet: build the argument vector, transport.NewProcess(ctx, "sudo", argv)
NewProcess ==
    /\ pc = "runSet"
    /\ argv' = Argv(params)
    /\ \E e \in {Nil, ProcessErr} :
         /\ calls' = Append(calls, Call("NewProcess", e))
         /\ IF e # Nil
            THEN /\ ReturnPair(Nil, Errorf("failed to create process: ", e))
                 /\ UNCHANGED proc
            ELSE /\ proc' = "created"
                 /\ pc' = "stdoutPipe"
                 /\ UNCHANGED ret
    /\ UNCHANGED <<handed, envVars, httpVars>>
    /\ UNCHANGED <<target, params, pipeOut, pipeErr, stdout, stderr, outcome,
                   events, result>>

\* proc.StdoutPipe()
StdoutPipe ==
    /\ pc = "stdoutPipe"
    /\ \E e \in {Nil, PipeErr} :
         /\ calls' = Append(calls, Call("StdoutPipe", e))
         /\ IF e # Nil
            THEN ReturnPair(Nil, Errorf("failed to pipe stdout: ", e))
            ELSE /\ pc' = "stderrPipe"
                 /\ UNCHANGED ret
    /\ UNCHANGED <<handed, envVars, httpVars>>
    /\ UNCHANGED <<target, params, argv, proc, pipeOut, pipeErr, stdout,
                   stderr, outcome, events, result>>

\* proc.StderrPipe()
StderrPipe ==
    /\ pc = "stderrPipe"
    /\ \E e \in {Nil, PipeErr} :
         /\ calls' = Append(calls, Call("StderrPipe", e))
         /\ IF e # Nil
            THEN ReturnPair(Nil, Errorf("failed to pipe stderr: ", e))
            ELSE /\ pc' = "start"
                 /\ UNCHANGED ret
    /\ UNCHANGED <<handed, envVars, httpVars>>
    /\ UNCHANGED <<target, params, argv, proc, pipeOut, pipeErr, stdout,
                   stderr, outcome, events, result>>

\* variant: Wait is called whatever Start returned
StartThenAlwaysWait ==
    /\ pc = "start"
    /\ \E e \in {Nil, StartErr} :
         /\ calls' = Append(calls, Call("Start", e))
         /\ outcome' = e
         /\ proc' = IF e = Nil THEN "started" ELSE proc
         /\ pc' = "wait"
    /\ UNCHANGED <<handed, envVars, httpVars>>
    /\ UNCHANGED <<target, params, argv, pipeOut, pipeErr, stdout, stderr,
                   ret, events, result>>

\* outcome := proc.Start(ctx); Wait is skipped when Start fails
Start ==
    /\ pc = "start"
    /\ \E e \in {Nil, StartErr} :
         /\ calls' = Append(calls, Call("Start", e))
         /\ outcome' = e
         /\ proc' = IF e = Nil THEN "started" ELSE proc
         /\ pc' = IF e = Nil THEN "wait" ELSE "drain"
    /\ UNCHANGED <<handed, envVars, httpVars>>
    /\ UNCHANGED <<target, params, argv, pipeOut, pipeErr, stdout, stderr,
                   ret, events, result>>

\* outcome = proc.Wait(ctx): the process has run and written its output
Wait ==
    /\ pc = "wait"
    /\ \E e \in {Nil, ExitErr} :
         /\ calls' = Append(calls, Call("Wait", e))
         /\ outcome' = e
    /\ proc' = "exited"
    /\ pipeOut' \in StdoutInputs
    /\ pipeErr' \in StderrInputs
    /\ pc' = "drain"
    /\ UNCHANGED <<handed, envVars, httpVars>>
    /\ UNCHANGED <<target, params, argv, stdout, stderr, ret, events, result>>

\* stdout, stderr := getOutputFromReader(stdoutPipe, stderrPipe)
getOutputFromReader ==
    /\ pc = "drain"
    /\ \E eo \in {Nil, ReadErr}, ee \in {Nil, ReadErr} :
         /\ calls' = calls \o <<Call("ReadStdout", eo), Call("ReadStderr", ee)>>
         /\ stdout' = readBuffer(pipeOut, eo)
         /\ stderr' = readBuffer(pipeErr, ee)
    /\ pc' = "parse"
    /\ UNCHANGED <<handed, envVars, httpVars>>
    /\ UNCHANGED <<target, params, argv, proc, pipeOut, pipeErr, outcome,
                   ret, events, result>>

\* parseSetOutput(stderr, params.Parameter.ShallFail)
Parse ==
    /\ pc = "parse"
    /\ LET e == parseSetOutput(stderr, params.ShallFail)
       IN  IF e # Nil
           THEN ReturnPair(Nil, e)
           ELSE /\ pc' = "emitStdout"
                /\ UNCHANGED ret
    /\ UNCHANGED <<handed, envVars, httpVars>>
    /\ UNCHANGED <<target, params, calls, argv, proc, pipeOut, pipeErr,
                   stdout, stderr, outcome, events, result>>

\* emitEvent(ctx, EventStdout, eventPayload{Msg: string(stdout)}, target, r.ev)
EmitStdout ==
    /\ pc = "emitStdout"
    /\ \E e \in {Nil, EmitErr} :
         /\ calls' = Append(calls, Call("EmitStdout", e))
         /\ handed' = Append(handed,
                EventData(EventStdout, eventPayload(stdout), target))
         /\ IF emitEvent(e) # Nil
            THEN /\ ReturnPair(Nil, Errorf("cannot emit event: ", emitEvent(e)))
                 /\ UNCHANGED events
            ELSE /\ events' = Append(events,
                        EventData(EventStdout, eventPayload(stdout), target))
                 /\ pc' = "emitStderr"
                 /\ UNCHANGED ret
    /\ UNCHANGED <<envVars, httpVars>>
    /\ UNCHANGED <<target, params, argv, proc, pipeOut, pipeErr, stdout,
                   stderr, outcome, result>>

\* emitEvent(ctx, EventStderr, eventPayload{Msg: string(stderr)}, target, r.ev)
\* and, when it succeeds, return outcome, nil
EmitStderr ==
    /\ pc = "emitStderr"
    /\ \E e \in {Nil, EmitErr} :
         /\ calls' = Append(calls, Call("EmitStderr", e))
         /\ handed' = Append(handed,
                EventData(EventStderr, eventPayload(stderr), target))
         /\ IF emitEvent(e) # Nil
            THEN /\ ReturnPair(Nil, Errorf("cannot emit event: ", emitEvent(e)))
                 /\ UNCHANGED events
            ELSE /\ events' = Append(events,
                        EventData(EventStderr, eventPayload(stderr), target))
                 /\ ReturnPair(outcome, Nil)
    /\ UNCHANGED <<envVars, httpVars>>
    /\ UNCHANGED <<target, params, argv, proc, pipeOut, pipeErr, stdout,
                   stderr, outcome, result>>

\* Run: if err != nil { return err }; return outcome
Return ==
    /\ pc = "return"
    /\ result' = RunResult(ret.outcome, ret.err)
    /\ pc' = "done"
    /\ UNCHANGED <<handed, envVars, httpVars>>
    /\ UNCHANGED <<target, params, calls, argv, proc, pipeOut, pipeErr,
                   stdout, stderr, outcome, ret, events>>

Next ==
    \/ ExpandObject
    \/ CheckParams
    \/ NewTransport
    \/ NewProcess
    \/ StdoutPipe
    \/ StderrPipe
    \/ Start
    \/ Wait
    \/ getOutputFromReader
    \/ Parse
    \/ EmitStdout
    \/ EmitStderr
    \/ Return

Spec == Init /\ [][Next]_vars

Done == pc = "done"

----------------------------------------------------------------------------
(* The same run through time: timeout, bounded pipes, blocking calls *)

\* values of r.ts.Options.Timeout: none, or one minute
Timeouts == {0, 60}

\* one write of the remote process: a token to stdout or to stderr
Writes ==
    {[s |-> "out", b |-> Plain], [s |-> "err", b |-> TNull],
     [s |-> "err", b |-> TNum]}

\* what the remote command writes, in program order
Scripts == SeqsUpTo(Writes, MaxWrite)

StreamInit ==
    /\ pc = "Run"
    /\ target \in Targets
    /\ params = ZeroParams
    /\ calls = <<>>
    /\ argv = <<>>
    /\ proc = "none"
    /\ pipeOut = <<>>
    /\ pipeErr = <<>>
    /\ stdout = <<>>
    /\ stderr = <<>>
    /\ outcome = Nil
    /\ ret = NoRet
    /\ events = <<>>
    /\ result = Nil
    /\ handed = <<>>
    /\ timeout \in Timeouts
    /\ ctx = "live"
    /\ script \in Scripts
    /\ HttpIdle

\* a reader at the end of the pipe's buffer gets EOF: the process has exited,
\* or was never started
StreamClosed == proc \in {"exited", "created"}

\* xcontext.WithTimeout(ctx, timeout): the deadline passes before Run returns
TimeoutFires ==
    /\ timeout # 0
    /\ ctx = "live"
    /\ pc # "done"
    /\ ctx' = "canceled"
    /\ UNCHANGED <<runVars, timeout, script, httpVars>>

\* the remote process makes its next write; it blocks while the pipe is full
ProcWrite ==
    /\ proc = "started"
    /\ pc # "done"
    /\ script # <<>>
    /\ LET w == Head(script)
       IN  IF w.s = "out"
           THEN /\ Len(pipeOut) < PipeCap
                /\ pipeOut' = Append(pipeOut, w.b)
                /\ UNCHANGED pipeErr
           ELSE /\ Len(pipeErr) < PipeCap
                /\ pipeErr' = Append(pipeErr, w.b)
                /\ UNCHANGED pipeOut
    /\ script' = Tail(script)
    /\ UNCHANGED <<pc, target, params, calls, argv, proc, stdout, stderr,
                   outcome, ret, events, result, handed>>
    /\ UNCHANGED <<timeout, ctx, httpVars>>

\* the remote process exits after its last write, closing both streams
ProcExit ==
    /\ proc = "started"
    /\ pc # "done"
    /\ script = <<>>
    /\ proc' = "exited"
    /\ UNCHANGED <<pc, target, params, calls, argv, pipeOut, pipeErr, stdout,
                   stderr, outcome, ret, events, result, handed>>
    /\ UNCHANGED <<envVars, httpVars>>

\* the transport may end the remote process once the context is canceled;
\* the writes it had left are never made
ProcKilled ==
    /\ proc = "started"
    /\ pc # "done"
    /\ ctx = "canceled"
    /\ script # <<>>
    /\ proc' = "exited"
    /\ UNCHANGED <<pc, target, params, calls, argv, pipeOut, pipeErr, stdout,
                   stderr, outcome, ret, events, result, handed>>
    /\ UNCHANGED <<envVars, httpVars>>

\* variant: a canceled Wait gives up on the output
WaitReturnsSkipDrain ==
    /\ pc = "wait"
    /\ \E e \in {Nil, ExitErr, CtxErr} :
         /\ IF e = CtxErr THEN ctx = "canceled" ELSE proc = "exited"
         /\ calls' = Append(calls, Call("Wait", e))
         /\ outcome' = e
         /\ pc' = IF e = CtxErr THEN "parse" ELSE "drain"
    /\ UNCHANGED <<target, params, argv, proc, pipeOut, pipeErr, stdout,
                   stderr, ret, events, result, handed>>
    /\ UNCHANGED <<envVars, httpVars>>

\* outcome = proc.Wait(ctx) returns: the process has exited, or the context
\* is canceled
WaitReturns ==
    /\ pc = "wait"
    /\ \E e \in {Nil, ExitErr, CtxErr} :
         /\ IF e = CtxErr THEN ctx = "canceled" ELSE proc = "exited"
         /\ calls' = Append(calls, Call("Wait", e))
         /\ outcome' = e
         /\ pc' = "drain"
    /\ UNCHANGED <<target, params, argv, proc, pipeOut, pipeErr, stdout,
                   stderr, ret, events, result, handed>>
    /\ UNCHANGED <<envVars, httpVars>>

\* readBuffer(stdout): io.Copy moves what the pipe holds into the buffer
ReadStdoutCopy ==
    /\ pc = "drain"
    /\ pipeOut # <<>>
    /\ stdout' = Append(stdout, Head(pipeOut))
    /\ pipeOut' = Tail(pipeOut)
    /\ UNCHANGED <<pc, target, params, calls, argv, proc, pipeErr, stderr,
                   outcome, ret, events, result, handed>>
    /\ UNCHANGED <<envVars, httpVars>>

\* readBuffer(stdout): io.Copy returns at end-of-stream
ReadStdoutEOF ==
    /\ pc = "drain"
    /\ pipeOut = <<>>
    /\ StreamClosed
    /\ calls' = Append(calls, Call("ReadStdout", Nil))
    /\ stdout' = readBuffer(stdout, Nil)
    /\ pc' = "drainStderr"
    /\ UNCHANGED <<target, params, argv, proc, pipeOut, pipeErr, stderr,
                   outcome, ret, events, result, handed>>
    /\ UNCHANGED <<envVars, httpVars>>

\* readBuffer(stdout): io.Copy returns an error
ReadStdoutFails ==
    /\ pc = "drain"
    /\ calls' = Append(calls, Call("ReadStdout", ReadErr))
    /\ stdout' = readBuffer(stdout, ReadErr)
    /\ pc' = "drainStderr"
    /\ UNCHANGED <<target, params, argv, proc, pipeOut, pipeErr, stderr,
                   outcome, ret, events, result, handed>>
    /\ UNCHANGED <<envVars, httpVars>>

\* readBuffer(stderr): io.Copy moves what the pipe holds into the buffer
ReadStderrCopy ==
    /\ pc = "drainStderr"
    /\ pipeErr # <<>>
    /\ stderr' = Append(stderr, Head(pipeErr))
    /\ pipeErr' = Tail(pipeErr)
    /\ UNCHANGED <<pc, target, params, calls, argv, proc, pipeOut, stdout,
                   outcome, ret, events, result, handed>>
    /\ UNCHANGED <<envVars, httpVars>>

\* readBuffer(stderr): io.Copy returns at end-of-stream
ReadStderrEOF ==
    /\ pc = "drainStderr"
    /\ pipeErr = <<>>
    /\ StreamClosed
    /\ calls' = Append(calls, Call("ReadStderr", Nil))
    /\ stderr' = readBuffer(stderr, Nil)
    /\ pc' = "parse"
    /\ UNCHANGED <<target, params, argv, proc, pipeOut, pipeErr, stdout,
                   outcome, ret, events, result, handed>>
    /\ UNCHANGED <<envVars, httpVars>>

\* readBuffer(stderr): io.Copy returns an error
ReadStderrFails ==
    /\ pc = "drainStderr"
    /\ calls' = Append(calls, Call("ReadStderr", ReadErr))
    /\ stderr' = readBuffer(stderr, ReadErr)
    /\ pc' = "parse"
    /\ UNCHANGED <<target, params, argv, proc, pipeOut, pipeErr, stdout,
                   outcome, ret, events, result, handed>>
    /\ UNCHANGED <<envVars, httpVars>>

StreamNext ==
    \/ ExpandObject
    \/ CheckParams
    \/ NewTransport
    \/ NewProcess
    \/ StdoutPipe
    \/ StderrPipe
    \/ Start
    \/ TimeoutFires
    \/ ProcWrite
    \/ ProcExit
    \/ ProcKilled
    \/ WaitReturns
    \/ ReadStdoutCopy
    \/ ReadStdoutEOF
    \/ ReadStdoutFails
    \/ ReadStderrCopy
    \/ ReadStderrEOF
    \/ ReadStderrFails
    \/ Parse
    \/ EmitStdout
    \/ EmitStderr
    \/ Return

StreamSpec == StreamInit /\ [][StreamNext]_vars

\* every call of the runner that can return does return, and the timer runs;
\* nothing makes the remote process finish or a read fail
Fairness ==
    /\ WF_vars(ExpandObject) /\ WF_vars(CheckParams) /\ WF_vars(NewTransport)
    /\ WF_vars(NewProcess) /\ WF_vars(StdoutPipe) /\ WF_vars(StderrPipe)
    /\ WF_vars(Start) /\ WF_vars(WaitReturns)
    /\ WF_vars(ReadStdoutCopy) /\ WF_vars(ReadStdoutEOF)
    /\ WF_vars(ReadStderrCopy) /\ WF_vars(ReadStderrEOF)
    /\ WF_vars(Parse) /\ WF_vars(EmitStdout) /\ WF_vars(EmitStderr)
    /\ WF_vars(Return) /\ WF_vars(TimeoutFires)

LiveSpec == StreamSpec /\ Fairness

----------------------------------------------------------------------------
(* One call of a verb of the HTTP API transport *)

HttpInit ==
    /\ pc = "Run"
    /\ target = "dut1"
    /\ params = ZeroParams
    /\ calls = <<>>
    /\ argv = <<>>
    /\ proc = "none"
    /\ pipeOut = <<>>
    /\ pipeErr = <<>>
    /\ stdout = <<>>
    /\ stderr = <<>>
    /\ outcome = Nil
    /\ ret = NoRet
    /\ events = <<>>
    /\ result = Nil
    /\ handed = <<>>
    /\ timeout = 0
    /\ ctx = "live"
    /\ script = <<>>
    /\ hpc = "call"
    /\ haddr \in Addrs
    /\ hverb \in Verbs
    /\ hstatus = 0
    /\ hbody = NoBody
    /\ posts = <<>>
    /\ hret = NoHttpRet

\* request returns before the POST; the verb returns (nil, err)
RequestRejected ==
    /\ hpc = "call"
    /\ checkAddr(haddr) # Nil
    /\ hret' = [resp |-> NoResp, err |-> checkAddr(haddr)]
    /\ hpc' = "done"
    /\ UNCHANGED <<haddr, hverb, hstatus, hbody, posts>>
    /\ UNCHANGED <<runVars, envVars>>

\* http.PostForm(u.String(), params) is answered, and the body read
PostForm ==
    /\ hpc = "call"
    /\ checkAddr(haddr) = Nil
    /\ posts' = Append(posts, [addr |-> haddr, verb |-> hverb])
    /\ hstatus' \in Statuses
    /\ hbody' \in Bodies
    /\ hpc' = "answered"
    /\ UNCHANGED <<haddr, hverb, hret>>
    /\ UNCHANGED <<runVars, envVars>>

\* http.PostForm returns an error
PostFormFails ==
    /\ hpc = "call"
    /\ checkAddr(haddr) = Nil
    /\ posts' = Append(posts, [addr |-> haddr, verb |-> hverb])
    /\ hret' = [resp |-> NoResp,
                err |-> Errorf("HTTP POST failed", <<"connection refused">>)]
    /\ hpc' = "done"
    /\ UNCHANGED <<haddr, hverb, hstatus, hbody>>
    /\ UNCHANGED <<runVars, envVars>>

\* ioutil.ReadAll(resp.Body) returns an error
ReadAllFails ==
    /\ hpc = "call"
    /\ checkAddr(haddr) = Nil
    /\ posts' = Append(posts, [addr |-> haddr, verb |-> hverb])
    /\ hstatus' \in Statuses
    /\ hret' = [resp |-> NoResp,
                err |-> Errorf("cannot read HTTP response", <<"unexpected EOF">>)]
    /\ hpc' = "done"
    /\ UNCHANGED <<haddr, hverb, hbody>>
    /\ UNCHANGED <<runVars, envVars>>

\* request decodes the answer and the verb's method builds its response
VerbReturns ==
    /\ hpc = "answered"
    /\ hret' = verbResult(request(hstatus, hbody))
    /\ hpc' = "done"
    /\ UNCHANGED <<haddr, hverb, hstatus, hbody, posts>>
    /\ UNCHANGED <<runVars, envVars>>

HttpNext ==
    \/ RequestRejected
    \/ PostForm
    \/ PostFormFails
    \/ ReadAllFails
    \/ VerbReturns

HttpSpec == HttpInit /\ [][HttpNext]_vars

----------------------------------------------------------------------------
(* Vocabulary of the properties *)

\* runSet has returned its pair
Returned2 == pc \in {"return", "done"} /\ Called("NewProcess")

\* parseSetOutput has been applied to the captured stderr
ParseActed == Called("ReadStderr") /\ pc # "parse"

NoProcessCall ==
    ~Called("NewProcess") /\ ~Called("Start") /\ ~Called("Wait")

NoEmission ==
    events = <<>> /\ ~Called("EmitStdout") /\ ~Called("EmitStderr")

NoEmitFailure == ~Failed("EmitStdout") /\ ~Failed("EmitStderr")

BenignDoc == <<LBrace, KeyError, StrBenign, RBrace>>

\* the message the decoder leaves for the captured stderr
DecodedMsg == IF stderr = <<>> THEN "" ELSE Unmarshal(stderr).Msg

Decodes == stderr = <<>> \/ Unmarshal(stderr).err = Nil

ValidUTF8(text) == \A i \in 1..Len(text) : text[i] # Bad

----------------------------------------------------------------------------
(* C1: the pair runSet returns never has both components non-nil, and Run   *)
(* returns the launch error when it is non-nil and the outcome otherwise.   *)
C1_ExactlyOnePath ==
    Returned2 =>
        /\ ~(ret.outcome # Nil /\ ret.err # Nil)
        /\ pc = "done" =>
             result = IF ret.err # Nil THEN ret.err ELSE ret.outcome

\* a run whose process failed: the outcome path with a non-nil outcome
C1_Witness ==
    /\ pc = "done"
    /\ Failed("Wait")
    /\ ret.outcome = ExitErr
    /\ result = ExitErr

(* C2: a non-nil launch error (second result of runSet) means the process   *)
(* was never successfully started and no stdout/stderr bytes were captured. *)
C2_LaunchErrorMeansNoRun ==
    (Returned2 /\ ret.err # Nil) =>
        /\ ~Returned("Start", Nil)
        /\ stdout = <<>>
        /\ stderr = <<>>

(* C3: when NewProcess, StdoutPipe, StderrPipe or Start returns an error    *)
(* the run returns an error right away: Wait is not called, the streams are *)
(* not drained and no Stdout or Stderr event is emitted.                    *)
C3_LaunchFailureAborts ==
    (Failed("NewProcess") \/ Failed("StdoutPipe") \/ Failed("StderrPipe")
        \/ Failed("Start")) =>
        /\ ~Called("Wait")
        /\ ~Called("ReadStdout")
        /\ ~Called("ReadStderr")
        /\ NoEmission
        /\ pc = "done" => result # Nil

(* C4: once Start returned nil, one Stdout and one Stderr event are emitted *)
(* for the target whatever the outcome (Wait error, undecodable stderr,     *)
(* domain error), provided the emitter does not fail.                       *)
C4_OutputEmittedOnceLaunched ==
    (pc = "done" /\ Returned("Start", Nil) /\ NoEmitFailure) =>
        /\ Len(events) = 2
        /\ events[1].EventName = EventStdout
        /\ events[2].EventName = EventStderr
        /\ events[1].Target = target
        /\ events[2].Target = target

----------------------------------------------------------------------------
(* C5: a failed expansion, a protocol other than ssh, no credential at all, *)
(* an empty Option or Value, or a failed NewTransport ends Run with an      *)
(* error; NewProcess, Start and Wait are never called and nothing is        *)
(* emitted.                                                                 *)
InvalidRun ==
    \/ Failed("ExpandObject")
    \/ /\ Returned("ExpandObject", Nil)
       /\ \/ params.Proto # "ssh"
          \/ params.Password = "" /\ params.KeyPath = ""
          \/ params.Option = ""
          \/ params.Value = ""
    \/ Failed("NewTransport")

C5_ValidationAborts ==
    InvalidRun =>
        /\ pc \in {"validate", "done"}
        /\ NoProcessCall
        /\ NoEmission
        /\ pc = "done" => result # Nil

\* a run that gave a value but no option has ended with an error
C5_Witness ==
    /\ pc = "done"
    /\ params.Proto = "ssh"
    /\ params.Password # ""
    /\ params.Option = ""
    /\ params.Value # ""
    /\ result = <<"bios option and value must be set">>

(* C6 as stated: a run with both Password and KeyPath non-empty, or both    *)
(* empty, fails validation before a transport is constructed or a remote    *)
(* action attempted.                                                        *)
C6_ExactlyOneCredential ==
    (/\ Returned("ExpandObject", Nil)
     /\ (params.Password = "") = (params.KeyPath = "")) =>
        /\ ~Called("NewTransport")
        /\ NoProcessCall
        /\ pc = "done" => result # Nil

(* C6 amended: only a run with both Password and KeyPath empty fails the    *)
(* credential check, before any transport is constructed; a run with both   *)
(* set passes it like a run with one, and the password is the credential    *)
(* handed to the tool.                                                      *)
C6_AtLeastOneCredential ==
    /\ (/\ Returned("ExpandObject", Nil)
        /\ params.Password = ""
        /\ params.KeyPath = "") =>
            /\ ~Called("NewTransport")
            /\ NoProcessCall
            /\ pc = "done" => result # Nil
    /\ (/\ Returned("ExpandObject", Nil)
        /\ pc # "validate"
        /\ params.Proto = "ssh"
        /\ params.Option # ""
        /\ params.Value # ""
        /\ (params.Password # "" \/ params.KeyPath # "")) =>
            (pc = "newTransport" \/ Called("NewTransport"))
    /\ Called("NewProcess") =>
            argv[6] = IF params.Password # ""
                      THEN <<"--password=", params.Password>>
                      ELSE <<"--private-key=", params.KeyPath>>

\* both credentials set, and the process was created with the password
C6_Witness ==
    /\ params.Password # ""
    /\ params.KeyPath # ""
    /\ Returned("NewProcess", Nil)
    /\ argv[6] = <<"--password=", params.Password>>

----------------------------------------------------------------------------
C8_TwoTierPolicy ==
    (ParseActed /\ Decodes) =>
        IF DecodedMsg = "" \/ (DecodedMsg = Benign /\ params.ShallFail)
        THEN pc = "emitStdout" \/ Called("EmitStdout")
        ELSE /\ pc \in {"return", "done"}
             /\ ~Called("EmitStdout")
             /\ ret = [outcome |-> Nil, err |-> <<DecodedMsg>>]

\* the benign message without the flag is surfaced verbatim
C8_Witness ==
    /\ pc = "return"
    /\ stderr = BenignDoc
    /\ ~params.ShallFail
    /\ ret.err = <<Benign>>

----------------------------------------------------------------------------
(* C9 as stated: with the benign message on stderr, Run returns nil when    *)
(* ShallFail is true and an error with exactly that message when it is      *)
(* false (read with an emitter that does not fail).                         *)
C9_SoftFailureEndToEnd ==
    (pc = "done" /\ stderr = BenignDoc /\ NoEmitFailure) =>
        IF params.ShallFail THEN result = Nil ELSE result = <<Benign>>

(* C9 amended: with the benign message on stderr, Run returns an error with *)
(* exactly that message when ShallFail is false; when ShallFail is true it  *)
(* returns nil provided Wait returned nil and both events were emitted, and *)
(* otherwise Wait's error or the emission error.                            *)
C9_SoftFailureWhenClean ==
    (pc = "done" /\ stderr = BenignDoc) =>
        IF ~params.ShallFail THEN result = <<Benign>> /\ events = <<>>
        ELSE /\ (Returned("Wait", Nil) /\ NoEmitFailure) => result = Nil
             /\ (Failed("Wait") /\ NoEmitFailure) => result = ExitErr
             /\ ~NoEmitFailure =>
                    result = <<"cannot emit event: ",
                               "cannot emit event EventCmdStart: ">> \o EmitErr

\* the suppressed soft failure of a process that exited cleanly
C9_Witness ==
    /\ pc = "done"
    /\ stderr = BenignDoc
    /\ params.ShallFail
    /\ Returned("Wait", Nil)
    /\ Len(events) = 2
    /\ result = Nil

----------------------------------------------------------------------------
\* validation passed, Start and Wait returned nil, stderr decodes to an empty
\* message and both emissions succeeded
SuccessPath ==
    /\ pc = "done"
    /\ Returned("Start", Nil)
    /\ Returned("Wait", Nil)
    /\ stderr # <<>>
    /\ Unmarshal(stderr).err = Nil
    /\ Unmarshal(stderr).Msg = ""
    /\ Returned("EmitStdout", Nil)
    /\ Returned("EmitStderr", Nil)

(* C10 as stated: on the success path Run returns nil and exactly two       *)
(* events are emitted for the target, Stdout then Stderr, whose Msg equals  *)
(* the captured stdout and the captured stderr.                             *)
C10_SuccessPathRawText ==
    SuccessPath =>
        /\ result = Nil
        /\ events =
             <<[EventName |-> EventStdout, Target |-> target,
                Payload |-> [Msg |-> stdout]],
               [EventName |-> EventStderr, Target |-> target,
                Payload |-> [Msg |-> stderr]]>>

(* C10 amended: on the success path Run returns nil and exactly two events  *)
(* are emitted for the target, Stdout then Stderr; each Msg is the captured *)
(* text with every byte that is not valid UTF-8 replaced by U+FFFD, hence   *)
(* equal to the captured text when that is valid UTF-8.                     *)
C10_SuccessPathCoercedText ==
    SuccessPath =>
        /\ result = Nil
        /\ Len(events) = 2
        /\ events[1].EventName = EventStdout
        /\ events[2].EventName = EventStderr
        /\ events[1].Target = target
        /\ events[2].Target = target
        /\ Len(events[1].Payload.Msg) = Len(stdout)
        /\ \A i \in 1..Len(stdout) :
             events[1].Payload.Msg[i] =
                IF stdout[i] = Bad THEN Replacement ELSE stdout[i]
        /\ ValidUTF8(stdout) => events[1].Payload.Msg = stdout
        /\ events[2].Payload.Msg = stderr

\* a clean run with text on stdout and {"error":""} on stderr
C10_Witness ==
    /\ SuccessPath
    /\ stdout = <<Plain>>
    /\ stderr = <<LBrace, KeyError, StrEmpty, RBrace>>
    /\ result = Nil
    /\ events[1].Payload.Msg = <<Plain>>

----------------------------------------------------------------------------
(* C14: when the emitter fails for the Stdout or the Stderr event, Run      *)
(* returns an error even though the process succeeded and the parser found  *)
(* nothing; after a failed Stdout emission the Stderr event is not emitted. *)
C14_EmissionFailureFatal ==
    /\ Failed("EmitStdout") =>
            /\ pc \in {"return", "done"}
            /\ ~Called("EmitStderr")
            /\ events = <<>>
    /\ Failed("EmitStderr") =>
            /\ pc \in {"return", "done"}
            /\ Len(events) = 1
    /\ (pc = "done" /\ ~NoEmitFailure) =>
            /\ result # Nil
            /\ result = <<"cannot emit event: ",
                          "cannot emit event EventCmdStart: ">> \o EmitErr

\* a clean process and a clean stderr, and the Stdout emission failed
C14_Witness ==
    /\ pc = "done"
    /\ Returned("Wait", Nil)
    /\ stderr = <<LBrace, KeyError, StrEmpty, RBrace>>
    /\ Failed("EmitStdout")
    /\ result # Nil

(* C15: every event handed to the emitter is named Stdout or Stderr, and a  *)
(* run hands over at most one event of each name.                           *)
C15_OnlyRegisteredNames ==
    /\ \A i \in 1..Len(handed) :
            \E k \in 1..Len(Events) : handed[i].EventName = Events[k]
    /\ \A i, j \in 1..Len(handed) :
            handed[i].EventName = handed[j].EventName => i = j
    /\ \A i \in 1..Len(events) :
            \E k \in 1..Len(handed) : events[i] = handed[k]

\* both events were handed over, the second one refused
C15_Witness ==
    /\ Len(handed) = 2
    /\ handed[1].EventName = EventStdout
    /\ handed[2].EventName = EventStderr
    /\ Failed("EmitStderr")

----------------------------------------------------------------------------
\* the part s of an error's text
HasPart(e, s) == \E i \in 1..Len(e) : e[i] = s

(* C18: a read error on stdout or stderr does not end the run: the failing  *)
(* stream's buffer is empty (the bytes read before the error are dropped),  *)
(* the run goes on to parse and, the parser permitting, to emit, and the    *)
(* read error never is Run's return value.                                  *)
C18_ReadErrorNotFatal ==
    /\ Failed("ReadStdout") => stdout = <<>>
    /\ Failed("ReadStderr") => stderr = <<>>
    /\ (Failed("ReadStdout") \/ Failed("ReadStderr")) =>
            /\ pc \in {"parse", "emitStdout", "emitStderr", "return", "done"}
            /\ (ParseActed /\ parseSetOutput(stderr, params.ShallFail) = Nil)
                    => (pc = "emitStdout" \/ Called("EmitStdout"))
    /\ (Failed("ReadStderr") /\ ParseActed) =>
            (pc = "emitStdout" \/ Called("EmitStdout"))
    /\ pc = "done" => ~HasPart(result, ReadErr[1])

\* the process wrote to stdout, the read failed, and the run succeeded with
\* an empty Stdout event
C18_Witness ==
    /\ pc = "done"
    /\ pipeOut # <<>>
    /\ Failed("ReadStdout")
    /\ stdout = <<>>
    /\ Len(events) = 2
    /\ events[1].Payload.Msg = <<>>
    /\ result = Nil

----------------------------------------------------------------------------
Count(op) == Cardinality({i \in 1..Len(calls) : calls[i].op = op})

\* every call of a precedes every call of b
Before(a, b) ==
    \A i, j \in 1..Len(calls) :
        (calls[i].op = a /\ calls[j].op = b) => i < j

(* C19: both pipes are obtained before Start is called; Start is called at  *)
(* most once; Wait is called only after Start returned nil, never after a   *)
(* failed Start; the streams are read only after Start, and Wait if it was  *)
(* called, returned.                                                        *)
C19_LifecycleOrder ==
    /\ Count("Start") <= 1
    /\ Count("Wait") <= 1
    /\ Called("Start") =>
            /\ Returned("StdoutPipe", Nil) /\ Before("StdoutPipe", "Start")
            /\ Returned("StderrPipe", Nil) /\ Before("StderrPipe", "Start")
    /\ Called("Wait") => (Returned("Start", Nil) /\ Before("Start", "Wait"))
    /\ Failed("Start") => ~Called("Wait")
    /\ pc = "wait" => Returned("Start", Nil)
    /\ \A r \in {"ReadStdout", "ReadStderr"} :
            Called(r) =>
                /\ Called("Start") /\ Before("Start", r)
                /\ Before("Wait", r)
                /\ (Returned("Start", Nil) => Called("Wait"))

\* a whole lifecycle: pipes, Start, Wait, reads
C19_Witness ==
    /\ Called("Wait")
    /\ Called("ReadStdout")
    /\ Called("ReadStderr")
    /\ Count("Start") = 1

----------------------------------------------------------------------------
\* the error the call of op returned
ErrOf(op) == calls[CHOOSE i \in 1..Len(calls) : calls[i].op = op].err

(* C20: with the handle and both pipes obtained, the parser returning nil   *)
(* and both emissions succeeding, Run returns the process outcome: Start's  *)
(* error if Start failed, otherwise what Wait returned.  So a non-zero exit *)
(* fails the run even when the benign message was suppressed, and a clean   *)
(* run with ShallFail set returns nil.                                      *)
C20_ResultIsProcessOutcome ==
    (/\ pc = "done"
     /\ Returned("StdoutPipe", Nil)
     /\ Returned("StderrPipe", Nil)
     /\ Returned("EmitStdout", Nil)
     /\ Returned("EmitStderr", Nil)) =>
        /\ parseSetOutput(stderr, params.ShallFail) = Nil
        /\ result = IF Failed("Start") THEN ErrOf("Start") ELSE ErrOf("Wait")
        /\ (Failed("Wait") /\ params.ShallFail /\ stderr = BenignDoc)
                => result = ExitErr
        /\ (Returned("Wait", Nil) /\ params.ShallFail /\ DecodedMsg = "")
                => result = Nil

\* the benign message was suppressed and the non-zero exit still fails Run
C20_Witness ==
    /\ pc = "done"
    /\ params.ShallFail
    /\ stderr = BenignDoc
    /\ Failed("Wait")
    /\ Len(events) = 2
    /\ result = ExitErr

----------------------------------------------------------------------------
(* C11: once a declared timeout has elapsed and the context is canceled,    *)
(* Run eventually returns, whatever phase it is in, given that every        *)
(* context-aware call returns once its context is canceled.                 *)
C11_TimeoutReturns == (timeout # 0 /\ ctx = "canceled") ~> (pc = "done")

----------------------------------------------------------------------------
\* the remote process is blocked in a write to a full pipe
ProcBlocked ==
    /\ proc = "started"
    /\ script # <<>>
    /\ Len(IF Head(script).s = "out" THEN pipeOut ELSE pipeErr) >= PipeCap

\* the runner is inside Wait, which cannot return
BlockedInWait == pc = "wait" /\ proc # "exited" /\ ctx = "live"

\* the runner is inside io.Copy on an empty stream that is still open
BlockedReadingStdout == pc = "drain" /\ pipeOut = <<>> /\ ~StreamClosed

BlockedReadingStderr == pc = "drainStderr" /\ pipeErr = <<>> /\ ~StreamClosed

(* C12: the runner is never blocked, in Wait or reading one stream to its   *)
(* end, while the remote process is blocked writing to the other stream,    *)
(* which nobody drains.                                                     *)
C12_IndependentDrains ==
    /\ ~(BlockedInWait /\ ProcBlocked)
    /\ ~(BlockedReadingStdout /\ ProcBlocked /\ Head(script).s = "err")
    /\ ~(BlockedReadingStderr /\ ProcBlocked /\ Head(script).s = "out")

----------------------------------------------------------------------------
(* C13: once Start returned nil and Wait has returned, with nil, a non-zero *)
(* exit or the canceled context's error, runSet does not go on or return    *)
(* before it has read stdout and then stderr to their end.                  *)
C13_DrainAfterWait ==
    (Called("Wait") /\ pc \notin {"drain", "drainStderr"}) =>
        /\ Returned("Start", Nil)
        /\ Called("ReadStdout") /\ Before("Wait", "ReadStdout")
        /\ Called("ReadStderr") /\ Before("ReadStdout", "ReadStderr")
        /\ Returned("ReadStdout", Nil) => (pipeOut = <<>> /\ StreamClosed)
        /\ Returned("ReadStderr", Nil) => (pipeErr = <<>> /\ StreamClosed)

\* Wait returned the canceled context's error and what the process had
\* written was still captured
C13_Witness ==
    /\ pc = "done"
    /\ Returned("Wait", CtxErr)
    /\ Returned("ReadStdout", Nil)
    /\ Returned("ReadStderr", Nil)
    /\ stdout = <<Plain>>
    /\ stderr = <<TNull>>

----------------------------------------------------------------------------
\* the verb's method has returned
HttpReturned == hpc = "done"

\* the base address has a scheme, and it is http or https
SupportedScheme(addr) ==
    /\ urlParse(addr).err = Nil
    /\ urlParse(addr).scheme \in {<<"http">>, <<"https">>}

(* C16: for every verb, a base address that has no scheme, or a scheme      *)
(* other than http or https, never is posted to, and the call returns a nil *)
(* response and a non-nil error.                                            *)
C16_BadSchemeNoPost ==
    ~SupportedScheme(haddr) =>
        /\ posts = <<>>
        /\ hpc \in {"call", "done"}
        /\ HttpReturned => (hret.err # Nil /\ hret.resp = NoResp)

\* scenario E and its neighbours: calls that returned with the address
\* "example.com", with "example.com:8080" and with "ftp://example.com"
C16_Witness ==
    /\ HttpReturned
    /\ posts = <<>>
    /\ hret.err # Nil
    /\ \/ haddr = <<Host>> /\ hverb = "status"
       \/ haddr = <<Host, Colon, Port>> /\ hverb = "list"
       \/ haddr = <<"ftp", Colon, Slashes, Host>> /\ hverb = "start"

----------------------------------------------------------------------------
\* the server answered the call with a non-200 status and the body {"msg": m}
ErrorAnswer(m) ==
    /\ HttpReturned
    /\ posts # <<>>
    /\ hstatus # 200
    /\ hbody = MsgBody(m)

(* C17 as stated: for every verb, a non-200 answer with the body            *)
(* {"msg": m} makes the call return an error wrapping m, and no typed data. *)
C17_ErrorReturned ==
    \A m \in Msgs :
        ErrorAnswer(m) =>
            /\ HasPart(hret.err, m)
            /\ hret.resp.Data \in {Absent, ZeroData}

(* C17 amended: for every verb, a non-200 answer with the body {"msg": m}   *)
(* makes the call return a nil error and a response whose Err member wraps  *)
(* m, whose ServerID is empty and whose data is the verb's zero value.      *)
C17_ErrorInResponse ==
    \A m \in Msgs :
        ErrorAnswer(m) =>
            /\ hret.err = Nil
            /\ ~hret.resp.nil
            /\ hret.resp.Err = <<m>>
            /\ hret.resp.ServerID = ""
            /\ hret.resp.Data = ZeroData

\* scenario D: status 500 with the body {"msg": "job not found"}
C17_Witness ==
    /\ ErrorAnswer("job not found")
    /\ hstatus = 500
    /\ hverb = "status"
    /\ hret.err = Nil
    /\ hret.resp.Err = <<"job not found">>

====
